---- MODULE Spec2Model ----
(***************************************************************************)
(* Verification model of the agent scripts of the Profit Platform          *)
(* repository: the ManagerAgent workflow engine (manager-agent.js), the    *)
(* AgentOrchestrator (agent-orchestrator.js), the EnhancedUITestingAgent   *)
(* page loop, the command-line entry points and the homepage service       *)
(* worker (sw.js).  Each component has its own variables and its own       *)
(* specification; a specification leaves the other components' variables  *)
(* unchanged.                                                              *)
(*                                                                         *)
(* The ManagerAgent specification models one process run that starts in a  *)
(* fresh output directory (loadState finds no manager-state.json).  Agent  *)
(* executions are asynchronous: one action per settle event, which runs    *)
(* the event listeners, the auto-remediation started by them and the       *)
(* continuation of the workflow code awaiting that execution, as the       *)
(* JavaScript run-to-completion semantics does.                            *)
(***************************************************************************)
EXTENDS Integers, Sequences, FiniteSets, TLC

(***************************************************************************)
(* Bounds                                                                  *)
(***************************************************************************)
\* cap on executeAgent calls per agent name (the retry chain is unbounded)
MaxInvocations == 5
\* number of manager processes run one after another on one output directory
MaxRuns == 2
\* last value of the millisecond clock
MaxClock == 3
\* milliseconds per calendar day, scaled down from 86400000
MsPerDay == 2
\* number of fetch events the service worker receives
MaxFetchEvents == 2
\* number of requests the service worker is answering at the same time
MaxInFlight == 2
\* number of 100 ms focus timers of the header that can be pending at once
MaxFocusTimers == 2
\* number of command-line arguments given to run-enhanced-tests
MaxArgs == 2
\* number of entries of one agent's dependencies array
MaxDeps == 2
\* executions of one agent (the workflow's and the retries) in the runs of
\* caller-registered workflows
MaxAdaptiveInvocations == 3

(***************************************************************************)
(* ManagerAgent: registry, workflows, configuration                        *)
(***************************************************************************)
AgentNames == {"developer", "tester", "ui", "orchestrator"}

\* this.agents[*].dependencies
dependencies ==
    [a \in AgentNames |->
        IF a = "orchestrator" THEN <<"developer", "tester", "ui">> ELSE << >>]

\* this.agents[*].resourceUsage
resourceUsage ==
    [a \in AgentNames |->
        CASE a = "developer" -> "low"
          [] a = "tester" -> "high"
          [] a = "ui" -> "medium"
          [] OTHER -> "low"]

\* resourceOrder of optimizeForResources
resourceOrder(r) == CASE r = "low" -> 1 [] r = "medium" -> 2 [] OTHER -> 3

WorkflowNames == {"quick-check", "comprehensive", "performance-focused", "security-audit"}

\* this.workflows: display name, agent list and mode of each workflow
workflows ==
    [w \in WorkflowNames |->
        CASE w = "quick-check" ->
                [name |-> "Quick Health Check", agents |-> <<"developer", "ui">>,
                 mode |-> "parallel"]
          [] w = "comprehensive" ->
                [name |-> "Comprehensive Analysis",
                 agents |-> <<"developer", "tester", "ui", "orchestrator">>,
                 mode |-> "adaptive"]
          [] w = "performance-focused" ->
                [name |-> "Performance Analysis", agents |-> <<"developer", "tester">>,
                 mode |-> "sequential"]
          [] OTHER ->
                [name |-> "Security Audit", agents |-> <<"developer", "tester">>,
                 mode |-> "parallel"]]

\* config.maxConcurrentAgents default
maxConcurrentAgents == 2

\* config.retryFailedAgents default
retryFailedAgentsDefault == 3

\* values of config.retryFailedAgents a configuration file is given here
RetryChoices == {0, retryFailedAgentsDefault}

\* the configurations the manager is constructed with
Configs ==
    [retryFailedAgents : RetryChoices, autoRemediation : BOOLEAN,
     enableNotifications : {TRUE}, resourceOptimization : {TRUE}]

Range(f) == {f[i] : i \in DOMAIN f}

VARIABLES
    pc,               \* position of executeWorkflow
    cfg,              \* this.config
    wf,               \* state.currentWorkflow
    wfMode,           \* workflow.mode (optimizeForResources may rewrite it)
    wfAgents,         \* workflow.agents (optimizeForResources sorts it in place)
    status,           \* agents[a].status
    runCount,         \* agents[a].runCount
    runningAgents,    \* state.runningAgents
    completedAgents,  \* state.completedAgents
    failedAgents,     \* state.failedAgents
    results,          \* the results object of the running mode: "none" is an absent key
    inProgress,       \* per agent: the pending executeAgent promise and who awaits it
    invocations,      \* per agent: number of executeAgent calls so far
    wfOutcome,        \* per agent: how the workflow's own executeAgent call settled
    loop,             \* locals of executeSequential / executeAdaptive
    err,              \* the error executeWorkflow threw, "none" if none
    reportsWritten,   \* generateManagerReports wrote its files
    notifications,    \* state.notifications.length
    metrics           \* state.metrics.totalRuns / successfulRuns

mgrVars ==
    <<pc, cfg, wf, wfMode, wfAgents, status, runCount, runningAgents, completedAgents,
      failedAgents, results, inProgress, invocations, wfOutcome, loop, err,
      reportsWritten, notifications, metrics>>

VARIABLES
    clock,            \* Date.now(), in milliseconds
    runNo,            \* number of manager processes started so far
    runPhase,         \* position of the current process in executeWorkflow
    runWorkflow,      \* the workflow the current process executes
    written           \* every fs.writeFile so far: path, writing run, time

runVars == <<clock, runNo, runPhase, runWorkflow, written>>

VARIABLES
    orchPc,           \* position of AgentOrchestrator.orchestrateAgents
    orchConfig,       \* AgentOrchestrator.config
    orchPromises,     \* agentPromises of runAgentsInParallel, in push order
    orchPending,      \* the run*Agent calls that have not returned yet
    orchReturned,     \* what each run*Agent call returned
    orchAgents        \* results.agents

orchVars == <<orchPc, orchConfig, orchPromises, orchPending, orchReturned, orchAgents>>

VARIABLES
    uiPc,             \* position of EnhancedUITestingAgent.runAllTests
    uiIndex,          \* index of the page the for loop is at
    uiResults,        \* this.results
    uiOpenPages,      \* browser pages created by context.newPage and not closed
    uiThrew           \* indexes of the pages whose checks threw

uiVars == <<uiPc, uiIndex, uiResults, uiOpenPages, uiThrew>>

VARIABLES
    cliScript,        \* the script node was started with
    cliArgs,          \* its command-line flags
    cliPc,            \* position of the script's top-level code
    cliConfig,        \* where main() took its config from
    cliFailed,        \* the script's top-level function threw or rejected
    cliLogged,        \* the failure was written with console.error
    cliExit           \* process exit status, "none" while the process lives

cliVars == <<cliScript, cliArgs, cliPc, cliConfig, cliFailed, cliLogged, cliExit>>

VARIABLES
    swInstalled,      \* the install event has been handled
    swCaches,         \* CacheStorage: cache name -> URLs with a stored response
    swRequests,       \* the fetch events received so far, each with its progress
    swFetches,        \* number of fetch events received
    swActivation,     \* progress of the activate listener
    swCacheNames,     \* the cache names caches.keys() resolved with
    swDeleting        \* caches whose caches.delete has not resolved yet

swVars == <<swInstalled, swCaches, swRequests, swFetches,
            swActivation, swCacheNames, swDeleting>>

VARIABLES
    nav,              \* classes and ARIA attributes of the mobile navigation
    exitIntentShown,  \* closure variable of initializeAnimations
    exitPopupShow,    \* #exitPopup has class show
    faqSearchValue,   \* faqSearch.value
    faqActiveFilter,  \* data-category of the filter button with class active
    faqDisplay,       \* style.display of every FAQ item
    searchCount,      \* the number shown in #searchCount
    pageEvent         \* the event dispatched last

pageVars == <<nav, exitIntentShown, exitPopupShow, faqSearchValue, faqActiveFilter,
              faqDisplay, searchCount, pageEvent>>

VARIABLES
    isMenuOpen,       \* HeaderController.isMenuOpen
    menu,             \* classes, ARIA attributes and body overflow set by the menu
    focus,            \* document.activeElement
    focusTimers,      \* pending setTimeout callbacks of openMobileMenu
    innerWidth,       \* window.innerWidth
    pageYOffset,      \* window.pageYOffset
    scrolling,        \* the user is still scrolling
    progressWidth,    \* style.width of the progress bar, in percent
    headerScrolled,   \* #header has class scrolled
    inThrottle,       \* closure variable of throttle
    hdrEvent          \* the event or call handled last

hdrVars == <<isMenuOpen, menu, focus, focusTimers, innerWidth, pageYOffset, scrolling,
             progressWidth, headerScrolled, inThrottle, hdrEvent>>

VARIABLES
    retPc,            \* position in main() of run-enhanced-tests
    retArgs,          \* process.argv.slice(2)
    retFile,          \* the configuration file
    retOptions,       \* the options parsed from the arguments
    retConfig,        \* the config object built by main()
    retAgentConfig    \* this.config of the EnhancedUITestingAgent

retVars == <<retPc, retArgs, retFile, retOptions, retConfig, retAgentConfig>>

VARIABLES
    depGraph,         \* this.agents[*].dependencies given to checkDependencies
    depNames,         \* the agentNames argument
    depResult         \* "pending" before the call, then "valid" or "cycle"

depVars == <<depGraph, depNames, depResult>>

vars == <<mgrVars, runVars, orchVars, uiVars, cliVars, swVars, pageVars, hdrVars, retVars, depVars>>

\* the manager's state as one record, for the handlers below
cur ==
    [pc |-> pc, cfg |-> cfg, wf |-> wf, wfMode |-> wfMode, wfAgents |-> wfAgents,
     status |-> status, runCount |-> runCount, runningAgents |-> runningAgents,
     completedAgents |-> completedAgents, failedAgents |-> failedAgents,
     results |-> results, inProgress |-> inProgress, invocations |-> invocations,
     wfOutcome |-> wfOutcome, loop |-> loop, err |-> err,
     reportsWritten |-> reportsWritten, notifications |-> notifications,
     metrics |-> metrics]

SetState(s) ==
    /\ pc' = s.pc
    /\ cfg' = s.cfg
    /\ wf' = s.wf
    /\ wfMode' = s.wfMode
    /\ wfAgents' = s.wfAgents
    /\ status' = s.status
    /\ runCount' = s.runCount
    /\ runningAgents' = s.runningAgents
    /\ completedAgents' = s.completedAgents
    /\ failedAgents' = s.failedAgents
    /\ results' = s.results
    /\ inProgress' = s.inProgress
    /\ invocations' = s.invocations
    /\ wfOutcome' = s.wfOutcome
    /\ loop' = s.loop
    /\ err' = s.err
    /\ reportsWritten' = s.reportsWritten
    /\ notifications' = s.notifications
    /\ metrics' = s.metrics

emptyLoop == [idx |-> 0, remaining |-> << >>, completed |-> {}, parallel |-> << >>,
              sequential |-> << >>]

\* the constructor
MgrInit ==
    /\ pc = "constructed"
    /\ cfg \in Configs
    /\ wf = "none"
    /\ wfMode = "none"
    /\ wfAgents = << >>
    /\ status = [a \in AgentNames |-> "idle"]
    /\ runCount = [a \in AgentNames |-> 0]
    /\ runningAgents = {}
    /\ completedAgents = {}
    /\ failedAgents = {}
    /\ results = [a \in AgentNames |-> "none"]
    /\ inProgress = [a \in AgentNames |-> "none"]
    /\ invocations = [a \in AgentNames |-> 0]
    /\ wfOutcome = [a \in AgentNames |-> "none"]
    /\ loop = emptyLoop
    /\ err = "none"
    /\ reportsWritten = FALSE
    /\ notifications = 0
    /\ metrics = [totalRuns |-> 0, successfulRuns |-> 0]

(***************************************************************************)
(* Event listeners and executeAgent                                        *)
(***************************************************************************)
\* listener of 'agent-started'
onAgentStarted(s, a) ==
    [s EXCEPT !.status[a] = "running", !.runningAgents = @ \cup {a}]

\* listener of 'agent-completed'
onAgentCompleted(s, a) ==
    [s EXCEPT !.status[a] = "completed", !.runCount[a] = @ + 1,
              !.runningAgents = @ \ {a}, !.completedAgents = @ \cup {a}]

\* executeAgent up to the await of the agent's own method: the promise is
\* pending afterwards and `origin' is the code awaiting it
executeAgent(s, a, origin) ==
    LET s1 == onAgentStarted(s, a)
    IN  [s1 EXCEPT !.inProgress[a] = origin, !.invocations[a] = @ + 1]

sendNotification(s) == [s EXCEPT !.notifications = @ + 1]

\* handleAgentFailure up to its first await
handleAgentFailure(s, a) ==
    IF s.runCount[a] < s.cfg.retryFailedAgents
    THEN executeAgent(s, a, "retry")
    ELSE IF s.cfg.enableNotifications THEN sendNotification(s) ELSE s

\* listener of 'agent-failed'
onAgentFailed(s, a) ==
    LET s1 == [s EXCEPT !.status[a] = "failed", !.runningAgents = @ \ {a},
                        !.failedAgents = @ \cup {a}]
    IN  IF s1.cfg.autoRemediation THEN handleAgentFailure(s1, a) ELSE s1

(***************************************************************************)
(* Workflow failure path and cleanup                                       *)
(***************************************************************************)
cleanup(s) ==
    [s EXCEPT !.runningAgents = {}, !.completedAgents = {}, !.failedAgents = {},
              !.status = [a \in AgentNames |->
                            IF s.status[a] = "running" THEN "idle" ELSE s.status[a]]]

handleWorkflowFailure(s) == sendNotification(s)

\* the catch and finally blocks of executeWorkflow
workflowThrows(s, e) ==
    [cleanup(handleWorkflowFailure(s)) EXCEPT !.pc = "thrown", !.err = e]

(***************************************************************************)
(* Pre-execution checks                                                    *)
(***************************************************************************)
RECURSIVE visit(_, _, _), visitDeps(_, _, _, _)

visit_keepsVisiting(deps, agentName, st) ==
    IF agentName \in st.visiting THEN [st EXCEPT !.valid = FALSE]
    ELSE LET st1 == [st EXCEPT !.visiting = @ \cup {agentName}]
             ds == IF agentName \in DOMAIN deps THEN deps[agentName] ELSE << >>
         IN  visitDeps(deps, ds, 1, st1)

\* the closure `visit' of checkDependencies; st holds valid, visiting, resolved
visit(deps, agentName, st) ==
    IF agentName \in st.visiting THEN [st EXCEPT !.valid = FALSE]
    ELSE IF agentName \in st.resolved THEN st
    ELSE LET st1 == [st EXCEPT !.visiting = @ \cup {agentName}]
             ds == IF agentName \in DOMAIN deps THEN deps[agentName] ELSE << >>
             st2 == visitDeps(deps, ds, 1, st1)
         IN  IF ~st2.valid THEN st2
             ELSE [st2 EXCEPT !.visiting = @ \ {agentName},
                              !.resolved = @ \cup {agentName}]

\* the for loops of checkDependencies: visit names[i..], stop at the first failure
visitDeps(deps, names, i, st) ==
    IF i > Len(names) THEN st
    ELSE LET st1 == visit(deps, names[i], st)
         IN  IF ~st1.valid THEN st1 ELSE visitDeps(deps, names, i + 1, st1)

checkDependencies(deps, agentNames) ==
    visitDeps(deps, agentNames, 1, [valid |-> TRUE, visiting |-> {}, resolved |-> {}]).valid

\* workflow.agents.sort by resourceOrder (Array.prototype.sort is stable)
sortByResource(agents) ==
    LET pick(k) == SelectSeq(agents, LAMBDA a : resourceOrder(resourceUsage[a]) = k)
    IN  pick(1) \o pick(2) \o pick(3)

optimizeForResources(s) ==
    LET sorted == sortByResource(s.wfAgents)
        anyHigh == \E i \in DOMAIN sorted : resourceUsage[sorted[i]] = "high"
    IN  [s EXCEPT !.wfAgents = sorted,
                  !.wfMode = IF s.wfMode = "parallel" /\ anyHigh THEN "sequential" ELSE @]

\* the branch for status 'disabled' only logs, so it changes no state here
preExecutionChecks(s, sufficient) ==
    IF \E a \in Range(s.wfAgents) : s.status[a] = "running"
    THEN workflowThrows(s, "AlreadyRunning")
    ELSE IF ~checkDependencies(dependencies, s.wfAgents)
    THEN workflowThrows(s, "DependencyCheckFailed")
    ELSE LET s1 == IF s.cfg.resourceOptimization /\ ~sufficient
                   THEN optimizeForResources(s) ELSE s
         IN  [s1 EXCEPT !.pc = "exec"]

(***************************************************************************)
(* Execution modes                                                         *)
(***************************************************************************)
RECURSIVE startAll(_, _, _)
\* agents.map(agentName => this.executeAgent(...)): start names[i..] in order
startAll(s, names, i) ==
    IF i > Len(names) THEN s
    ELSE startAll(executeAgent(s, names[i], "workflow"), names, i + 1)

settled(s, names) == \A i \in DOMAIN names : s.wfOutcome[names[i]] # "none"

\* processResults that takes every settled promise as fulfilled
processResults_ignoreRejected(s, agentNames) ==
    [s EXCEPT !.results =
        [a \in AgentNames |-> IF a \in Range(agentNames) THEN "ok" ELSE s.results[a]]]

\* processResults, and the forEach over parallelResults in executeAdaptive
processResults(s, agentNames) ==
    [s EXCEPT !.results =
        [a \in AgentNames |->
            IF a \in Range(agentNames)
            THEN (IF s.wfOutcome[a] = "ok" THEN "ok" ELSE "error")
            ELSE s.results[a]]]

\* shouldStopOnFailure with no critical agent
shouldStopOnFailure_neverStops(agentName, workflow) == FALSE

shouldStopOnFailure(agentName, workflow) ==
    LET criticalAgents == {"developer"}
    IN  agentName \in criticalAgents /\ workflow.name # "comprehensive"

\* executeParallel up to the await of Promise.allSettled
executeParallel(s) ==
    [startAll(s, s.wfAgents, 1) EXCEPT !.pc = "waitParallel"]

\* the for loop of executeSequential entering iteration i
sequentialNext(s, i) ==
    IF i > Len(s.wfAgents) THEN [s EXCEPT !.pc = "post"]
    ELSE executeAgent([s EXCEPT !.loop.idx = i, !.pc = "waitSequential"],
                      s.wfAgents[i], "workflow")

executeSequential(s) == sequentialNext(s, 1)

\* the await in executeSequential resumes with the outcome of agent a
sequentialResume(s, a, outcome) ==
    IF outcome = "ok"
    THEN sequentialNext([s EXCEPT !.results[a] = "ok"], s.loop.idx + 1)
    ELSE LET s1 == [s EXCEPT !.results[a] = "error"]
         IN  IF shouldStopOnFailure(a, workflows[s.wf])
             THEN [s1 EXCEPT !.pc = "post"]
             ELSE sequentialNext(s1, s.loop.idx + 1)

categorizeAgentsForExecution(s, readyAgents) ==
    LET isPar(a) == resourceUsage[a] # "high"
                    /\ Cardinality(s.runningAgents) < maxConcurrentAgents
    IN  [parallel |-> SelectSeq(readyAgents, isPar),
         sequential |-> SelectSeq(readyAgents, LAMBDA a : ~isPar(a))]

dependenciesSatisfied_always(a, completed) == TRUE

\* !agent.dependencies || agent.dependencies.every(dep => completed.has(dep))
dependenciesSatisfied(a, completed) == Range(dependencies[a]) \subseteq completed

\* one pass of the while loop of executeAdaptive, up to its first await
adaptiveLoop(s) ==
    IF s.loop.remaining = << >> THEN [s EXCEPT !.pc = "post"]
    ELSE LET ready == SelectSeq(s.loop.remaining,
                        LAMBDA a : dependenciesSatisfied(a, s.loop.completed))
         IN  IF ready = << >> THEN workflowThrows(s, "Deadlock")
             ELSE LET cat == categorizeAgentsForExecution(s, ready)
                      s1 == [s EXCEPT !.loop.parallel = cat.parallel,
                                      !.loop.sequential = cat.sequential]
                  IN  IF cat.parallel # << >>
                      THEN [startAll(s1, cat.parallel, 1) EXCEPT !.pc = "waitAdaptiveParallel"]
                      ELSE executeAgent([s1 EXCEPT !.loop.idx = 1,
                                                   !.pc = "waitAdaptiveSequential"],
                                        cat.sequential[1], "workflow")

\* the for loop over `sequential' in executeAdaptive entering iteration i
adaptiveSequentialNext(s, i) ==
    IF i > Len(s.loop.sequential) THEN adaptiveLoop(s)
    ELSE executeAgent([s EXCEPT !.loop.idx = i, !.pc = "waitAdaptiveSequential"],
                      s.loop.sequential[i], "workflow")

executeAdaptive(s) ==
    adaptiveLoop([s EXCEPT !.loop.remaining = s.wfAgents, !.loop.completed = {}])

\* a removal that leaves the agents in `remaining'
without_keepsAll(seq, set) == seq

\* remaining.delete(agentName) for every agent of `set'
without(seq, set) == SelectSeq(seq, LAMBDA a : a \notin set)

\* Promise.allSettled of the parallel batch resolved
adaptiveParallelResume(s) ==
    LET s1 == processResults(s, s.loop.parallel)
        s2 == [s1 EXCEPT !.loop.remaining = without(@, Range(s.loop.parallel)),
                         !.loop.completed = @ \cup Range(s.loop.parallel)]
    IN  adaptiveSequentialNext(s2, 1)

\* the await in the sequential part of executeAdaptive resumes
adaptiveSequentialResume(s, a, outcome) ==
    LET s1 == [s EXCEPT !.results[a] = IF outcome = "ok" THEN "ok" ELSE "error",
                        !.loop.completed = @ \cup {a},
                        !.loop.remaining = without(@, {a})]
    IN  adaptiveSequentialNext(s1, s.loop.idx + 1)

\* executeCustom defaults to the adaptive mode
executeCustom(s) == executeAdaptive(s)

executeWorkflowMode(s) ==
    CASE s.wfMode = "parallel" -> executeParallel(s)
      [] s.wfMode = "sequential" -> executeSequential(s)
      [] s.wfMode = "adaptive" -> executeAdaptive(s)
      [] s.wfMode = "custom" -> executeCustom(s)
      [] OTHER -> workflowThrows(s, "UnknownMode")

\* the workflow code awaiting agent a's execution resumes
resumeWorkflow(s, a, outcome) ==
    LET s1 == [s EXCEPT !.wfOutcome[a] = outcome]
    IN  CASE s1.pc = "waitParallel" ->
                IF settled(s1, s1.wfAgents)
                THEN [processResults(s1, s1.wfAgents) EXCEPT !.pc = "post"]
                ELSE s1
          [] s1.pc = "waitSequential" -> sequentialResume(s1, a, outcome)
          [] s1.pc = "waitAdaptiveParallel" ->
                IF settled(s1, s1.loop.parallel) THEN adaptiveParallelResume(s1) ELSE s1
          [] s1.pc = "waitAdaptiveSequential" -> adaptiveSequentialResume(s1, a, outcome)
          [] OTHER -> s1

(***************************************************************************)
(* Post-execution analysis and reports                                     *)
(***************************************************************************)
\* postExecutionAnalysis reads results[agentName].error for every workflow agent
postExecutionAnalysis(s) ==
    IF \E a \in Range(s.wfAgents) : s.results[a] = "none"
    THEN workflowThrows(s, "TypeError")
    ELSE [s EXCEPT !.pc = "reports"]

\* listener of 'workflow-completed'
onWorkflowCompleted(s) ==
    [s EXCEPT !.metrics.totalRuns = @ + 1,
              !.metrics.successfulRuns = IF s.failedAgents = {} THEN @ + 1 ELSE @]

\* generateManagerReports, the emit and the return of executeWorkflow
generateManagerReports(s) ==
    LET s1 == [s EXCEPT !.reportsWritten = TRUE]
        s2 == IF s1.cfg.enableNotifications THEN sendNotification(s1) ELSE s1
    IN  [cleanup(onWorkflowCompleted(s2)) EXCEPT !.pc = "done"]

(***************************************************************************)
(* Report artifacts of successive manager runs                             *)
(***************************************************************************)
\* new Date().toISOString().split('T')[0]: the calendar date of a timestamp
isoDate(ms) == ms \div MsPerDay

NoStamp == 0 - 1

\* a report path that leaves the date out
datedPath_undated(file, timestamp) == [file |-> file, workflow |-> "", stamp |-> NoStamp]

\* `${outputDir}/manager-report-${timestamp.split('T')[0]}.json` and its siblings
datedPath(file, timestamp) == [file |-> file, workflow |-> "", stamp |-> isoDate(timestamp)]

\* `${outputDir}/workflows/analysis-${workflow.name}-${Date.now()}.json`
analysisPath(workflowName, now) ==
    [file |-> "workflows/analysis", workflow |-> workflowName, stamp |-> now]

\* `${outputDir}/failure-report-${Date.now()}.json`
failureReportPath(now) == [file |-> "failure-report", workflow |-> "", stamp |-> now]

\* `${outputDir}/manager-state.json`
statePath == [file |-> "manager-state.json", workflow |-> "", stamp |-> NoStamp]

DatedManagerFiles == {"manager-report", "manager-dashboard", "manager-executive-summary"}
DatedAgentFiles == {"developer/developer-report", "ui/test-report"}

writeFile(paths) == written' = written \cup {[path |-> p, run |-> runNo, at |-> clock] : p \in paths}

\* the workflows the successive processes are started with
RunWorkflows == {"quick-check", "performance-focused"}

RunsInit ==
    /\ clock = 0
    /\ runNo = 0
    /\ runPhase = "exited"
    /\ runWorkflow = "none"
    /\ written = {}

\* time passes
Tick ==
    /\ clock < MaxClock
    /\ clock' = clock + 1
    /\ UNCHANGED <<runNo, runPhase, runWorkflow, written>>

\* node manager-agent.js --workflow=w, after the previous process exited
StartProcess(w) ==
    /\ runPhase = "exited"
    /\ runNo < MaxRuns
    /\ runNo' = runNo + 1
    /\ runWorkflow' = w
    /\ runPhase' = "agents"
    /\ UNCHANGED <<clock, written>>

\* the agents of the workflow write their own reports (generateDeveloperReport,
\* EnhancedUITestingAgent.generateReport)
AgentsReport ==
    /\ runPhase = "agents"
    /\ writeFile({datedPath(f, clock) : f \in DatedAgentFiles})
    /\ runPhase' = "analysis"
    /\ UNCHANGED <<clock, runNo, runWorkflow>>

\* postExecutionAnalysis saves its analysis
SaveAnalysis ==
    /\ runPhase = "analysis"
    /\ writeFile({analysisPath(workflows[runWorkflow].name, clock)})
    /\ runPhase' = "reports"
    /\ UNCHANGED <<clock, runNo, runWorkflow>>

\* postExecutionAnalysis throws: handleWorkflowFailure writes the failure report
SaveFailureReport ==
    /\ runPhase = "analysis"
    /\ writeFile({failureReportPath(clock)})
    /\ runPhase' = "cleanup"
    /\ UNCHANGED <<clock, runNo, runWorkflow>>

\* generateManagerReports: three files named from one timestamp
SaveManagerReports ==
    /\ runPhase = "reports"
    /\ writeFile({datedPath(f, clock) : f \in DatedManagerFiles})
    /\ runPhase' = "cleanup"
    /\ UNCHANGED <<clock, runNo, runWorkflow>>

\* cleanup: saveState, then the process exits
SaveState ==
    /\ runPhase = "cleanup"
    /\ writeFile({statePath})
    /\ runPhase' = "exited"
    /\ UNCHANGED <<clock, runNo, runWorkflow>>

RunsNext ==
    \/ Tick
    \/ \E w \in RunWorkflows : StartProcess(w)
    \/ AgentsReport
    \/ SaveAnalysis
    \/ SaveFailureReport
    \/ SaveManagerReports
    \/ SaveState

(***************************************************************************)
(* AgentOrchestrator                                                       *)
(***************************************************************************)
OrchAgentNames == <<"developer", "tester", "ui">>

\* the config key that enables each agent
runKey ==
    [n \in Range(OrchAgentNames) |->
        CASE n = "developer" -> "runDeveloperAgent"
          [] n = "tester" -> "runTesterAgent"
          [] OTHER -> "runUITestingAgent"]

\* agentName.charAt(0).toUpperCase() + agentName.slice(1)
capitalize(agentName) ==
    CASE agentName = "developer" -> "Developer"
      [] agentName = "tester" -> "Tester"
      [] OTHER -> "Ui"

\* `run${...}Agent`
configKeyOf(agentName) == "run" \o capitalize(agentName) \o "Agent"

\* this.config[key], undefined (falsy) for a key the config does not have
configFlag(config, key) == IF key \in DOMAIN config THEN config[key] ELSE FALSE

NoResult == [agent |-> "none", error |-> FALSE]

\* main: --agents=LIST and --parallel over the defaults of the config; the list is
\* the set of its comma-separated names, {"all"} the default 'all'
orchMainConfig(selectedAgents, parallel) ==
    [k \in {"runDeveloperAgent", "runTesterAgent", "runUITestingAgent", "runInParallel"} |->
        CASE k = "runDeveloperAgent" ->
                selectedAgents = {"all"} \/ "dev" \in selectedAgents \/ "developer" \in selectedAgents
          [] k = "runTesterAgent" ->
                selectedAgents = {"all"} \/ "test" \in selectedAgents \/ "tester" \in selectedAgents
          [] k = "runUITestingAgent" -> selectedAgents = {"all"} \/ "ui" \in selectedAgents
          [] OTHER -> parallel]

enabledAgents(config) == SelectSeq(OrchAgentNames, LAMBDA n : config[runKey[n]])

OrchInit ==
    /\ orchPc = "start"
    /\ orchConfig = orchMainConfig({"all"}, FALSE)
    /\ orchPromises = << >>
    /\ orchPending = {}
    /\ orchReturned = [n \in Range(OrchAgentNames) |-> NoResult]
    /\ orchAgents = [n \in Range(OrchAgentNames) |-> NoResult]

\* the forEach over the settled promises in runAgentsInParallel; run*Agent
\* catches its errors, so every promise is fulfilled
recordParallel(config, promises, returned) ==
    [n \in Range(OrchAgentNames) |->
        IF \E index \in DOMAIN promises :
              /\ index <= Len(OrchAgentNames)
              /\ OrchAgentNames[index] = n
              /\ configFlag(config, configKeyOf(n))
        THEN returned[promises[CHOOSE index \in DOMAIN promises : OrchAgentNames[index] = n]]
        ELSE NoResult]

\* what runAgentsSequentially leaves in results.agents
recordSequential(config, returned) ==
    [n \in Range(OrchAgentNames) |-> IF config[runKey[n]] THEN returned[n] ELSE NoResult]

\* main() and orchestrateAgents up to the first await of an agent
OrchestrateAgents(selectedAgents, parallel) ==
    /\ orchPc = "start"
    /\ LET config == orchMainConfig(selectedAgents, parallel)
           enabled == enabledAgents(config)
       IN  /\ orchConfig' = config
           /\ IF enabled = << >>
              THEN /\ orchPc' = "done"
                   /\ UNCHANGED <<orchPromises, orchPending>>
              ELSE IF parallel
              THEN /\ orchPromises' = enabled
                   /\ orchPending' = Range(enabled)
                   /\ orchPc' = "waitParallel"
              ELSE /\ orchPending' = {enabled[1]}
                   /\ orchPc' = "waitSequential"
                   /\ UNCHANGED orchPromises
    /\ UNCHANGED <<orchReturned, orchAgents>>

\* the next enabled agent after n, in the order of runAgentsSequentially
nextEnabled(config, n) ==
    LET enabled == enabledAgents(config)
        i == CHOOSE j \in DOMAIN enabled : enabled[j] = n
    IN  IF i < Len(enabled) THEN {enabled[i + 1]} ELSE {}

\* runDeveloperAgent / runTesterAgent / runUITestingAgent returns: the agent's
\* result, or { error } when the agent threw
OrchAgentReturns(n, failed) ==
    /\ n \in orchPending
    /\ LET value == [agent |-> n, error |-> failed]
           returned == [orchReturned EXCEPT ![n] = value]
           pending == orchPending \ {n}
       IN  /\ orchReturned' = returned
           /\ IF orchPc = "waitSequential"
              THEN /\ orchAgents' = [orchAgents EXCEPT ![n] = value]
                   /\ orchPending' = nextEnabled(orchConfig, n)
                   /\ orchPc' = IF nextEnabled(orchConfig, n) = {} THEN "done" ELSE orchPc
              ELSE /\ orchPending' = pending
                   /\ IF pending = {}
                      THEN /\ orchAgents' = recordParallel(orchConfig, orchPromises, returned)
                           /\ orchPc' = "done"
                      ELSE UNCHANGED <<orchAgents, orchPc>>
    /\ UNCHANGED <<orchConfig, orchPromises>>

AgentSelections == {{"all"}} \cup SUBSET {"dev", "test", "ui"}

OrchNext ==
    \/ \E sel \in AgentSelections, parallel \in BOOLEAN : OrchestrateAgents(sel, parallel)
    \/ \E n \in Range(OrchAgentNames), failed \in BOOLEAN : OrchAgentReturns(n, failed)

(***************************************************************************)
(* EnhancedUITestingAgent.runAllTests                                      *)
(***************************************************************************)
\* this.pages
pages ==
    <<"Homepage", "Services", "Pricing", "Contact", "Blog Template", "Privacy Policy",
      "Terms of Service", "SEO Landing", "Google Ads Landing">>

UiInit ==
    /\ uiPc = "constructed"
    /\ uiIndex = 0
    /\ uiResults = << >>
    /\ uiOpenPages = {}
    /\ uiThrew = {}

\* runAllTests: init() launches the browser, or rejects
RunAllTests(launched) ==
    /\ uiPc = "constructed"
    /\ uiPc' = IF launched THEN "newPage" ELSE "thrown"
    /\ uiIndex' = IF launched THEN 1 ELSE uiIndex
    /\ UNCHANGED <<uiResults, uiOpenPages, uiThrew>>

\* testPage: context.newPage(), before the try block
NewPage(created) ==
    /\ uiPc = "newPage"
    /\ IF created
       THEN /\ uiOpenPages' = uiOpenPages \cup {uiIndex}
            /\ uiPc' = "checks"
       ELSE /\ uiPc' = "thrown"
            /\ UNCHANGED uiOpenPages
    /\ UNCHANGED <<uiIndex, uiResults, uiThrew>>

\* the try / catch / finally of testPage that forgets the finally block
testPage_noFinally(openPages, index, threw) ==
    [result |-> [page |-> pages[index], error |-> threw, scored |-> ~threw],
     openPages |-> IF threw THEN openPages ELSE openPages \ {index}]

\* the try / catch / finally of testPage: the result and the pages left open
testPage(openPages, index, threw) ==
    [result |-> [page |-> pages[index], error |-> threw, scored |-> ~threw],
     openPages |-> openPages \ {index}]

\* the rest of testPage and the loop body of runAllTests: the checks run or
\* one of them throws, the page is closed, the result is pushed
TestPage(threw) ==
    /\ uiPc = "checks"
    /\ LET r == testPage(uiOpenPages, uiIndex, threw)
       IN  /\ uiResults' = Append(uiResults, r.result)
           /\ uiOpenPages' = r.openPages
    /\ uiThrew' = IF threw THEN uiThrew \cup {uiIndex} ELSE uiThrew
    /\ IF uiIndex < Len(pages)
       THEN /\ uiIndex' = uiIndex + 1
            /\ uiPc' = "newPage"
       ELSE /\ uiPc' = "report"
            /\ UNCHANGED uiIndex

\* browser.close(), generateReport() and the return of this.results
FinishTests ==
    /\ uiPc = "report"
    /\ uiPc' = "done"
    /\ UNCHANGED <<uiIndex, uiResults, uiOpenPages, uiThrew>>

UiNext ==
    \/ \E launched \in BOOLEAN : RunAllTests(launched)
    \/ \E created \in BOOLEAN : NewPage(created)
    \/ \E threw \in BOOLEAN : TestPage(threw)
    \/ FinishTests

(***************************************************************************)
(* Command-line entry points                                               *)
(***************************************************************************)
\* scripts whose main() wraps its work in try / catch with process.exit(1)
MainScripts == {"manager-agent", "agent-orchestrator", "run-enhanced-tests"}

\* scripts that end in `topLevel().catch(console.error)`
DirectScripts ==
    {"enhanced-ui-testing-agent", "developer-agent", "tester-agent", "test-header-footer"}

Scripts == MainScripts \cup DirectScripts

\* scripts that launch a browser, which keeps the process alive until closed
BrowserScripts == Scripts \ {"developer-agent", "manager-agent", "agent-orchestrator"}

CliInit ==
    /\ cliScript = "none"
    /\ cliArgs = [help |-> FALSE, info |-> FALSE]
    /\ cliPc = "shell"
    /\ cliConfig = "none"
    /\ cliFailed = FALSE
    /\ cliLogged = FALSE
    /\ cliExit = "none"

\* node <script> [--help] [--list | --status]
CliStart(script, help, info) ==
    /\ cliPc = "shell"
    /\ cliScript' = script
    /\ cliArgs' = [help |-> help, info |-> info]
    /\ cliPc' = IF script \in MainScripts THEN "main" ELSE "running"
    /\ UNCHANGED <<cliConfig, cliFailed, cliLogged, cliExit>>

\* main(): --help returns before the try block; the config file is read inside
\* a try of its own; manager-agent's --list and --status return
CliMain(configLoaded) ==
    /\ cliPc = "main"
    /\ IF cliArgs.help \/ (cliScript = "manager-agent" /\ cliArgs.info)
       THEN /\ cliPc' = "exited"
            /\ cliExit' = "0"
            /\ cliConfig' = IF cliArgs.help THEN cliConfig
                            ELSE IF configLoaded THEN "file" ELSE "defaults"
       ELSE /\ cliPc' = "running"
            /\ cliConfig' = IF configLoaded THEN "file" ELSE "defaults"
            /\ UNCHANGED cliExit
    /\ UNCHANGED <<cliScript, cliArgs, cliFailed, cliLogged>>

\* the exit status after `.catch(console.error)` handled the rejection: the
\* process ends normally once nothing keeps it alive
exitAfterCatch(script) == "0"

\* the top-level function settles: executeWorkflow / orchestrateAgents /
\* runAllTests / analyzeCodebase / testHeaderFooterConsistency
CliSettles(outcome) ==
    /\ cliPc = "running"
    /\ outcome = "lowScore" => cliScript = "run-enhanced-tests"
    /\ cliFailed' = (outcome = "throws")
    /\ IF cliScript \in MainScripts
       THEN \* catch (error) { console.error(...); process.exit(1) }
            /\ cliLogged' = (outcome = "throws")
            /\ cliExit' = IF outcome = "ok" THEN "0" ELSE "1"
            /\ cliPc' = "exited"
       ELSE \* .catch(console.error)
            /\ outcome # "lowScore"
            /\ cliLogged' = (outcome = "throws")
            /\ IF outcome = "throws" /\ cliScript \in BrowserScripts
               THEN \E browserLeftOpen \in BOOLEAN :
                       IF browserLeftOpen
                       THEN cliPc' = "alive" /\ cliExit' = "none"
                       ELSE cliPc' = "exited" /\ cliExit' = exitAfterCatch(cliScript)
               ELSE cliPc' = "exited" /\ cliExit' = exitAfterCatch(cliScript)
    /\ UNCHANGED <<cliScript, cliArgs, cliConfig>>

CliNext ==
    \/ \E script \in Scripts, help \in BOOLEAN, info \in BOOLEAN : CliStart(script, help, info)
    \/ \E configLoaded \in BOOLEAN : CliMain(configLoaded)
    \/ \E outcome \in {"ok", "throws", "lowScore"} : CliSettles(outcome)

(***************************************************************************)
(* Service worker (sw.js)                                                  *)
(***************************************************************************)
STATIC_CACHE == "profit-platform-static-v3"
DYNAMIC_CACHE == "profit-platform-dynamic-v2"

\* Request URLs, written as the sequence of their parts so that
\* String.prototype.includes can be evaluated on them
urlRoot == <<"/">>
urlServices == <<"/services">>
urlStyleCss == <<"/css/style", ".css">>
urlManifest == <<"/assets/manifest", ".js", "on">>
urlGoogleFontsCss == <<"https://fonts.", "googleapis.com", "/css2?family=Inter">>
urlGstaticFont == <<"https://fonts.gstatic.com/s/inter/font", ".woff2">>

Urls == {urlRoot, urlServices, urlStyleCss, urlManifest, urlGoogleFontsCss, urlGstaticFont}

\* the entries of urlsToCache among Urls
urlsToCache == {urlRoot, urlStyleCss, urlManifest, urlGoogleFontsCss}

\* what each URL is: an HTML page, a static asset of the site, or a resource of
\* the font / CDN hosts of EXTERNAL_RESOURCES
requestKind(url) ==
    CASE url \in {urlRoot, urlServices} -> "page"
      [] url \in {urlStyleCss, urlManifest} -> "static"
      [] OTHER -> "font-cdn"

\* request.url.includes(needle)
includes(url, needle) == \E i \in DOMAIN url : url[i] = needle

\* the strategy the fetch listener answers a GET request with
strategyOf(url) ==
    IF includes(url, "googleapis.com") \/ includes(url, "cdnjs.cloudflare.com")
    THEN "cacheFirst"
    ELSE IF \/ includes(url, ".css") \/ includes(url, ".js") \/ includes(url, ".png")
            \/ includes(url, ".jpg") \/ includes(url, ".webp")
    THEN "cacheFirst"
    ELSE "networkFirst"

\* caches.match(request): a stored response in any cache
cachesMatch(caches, url) == \E name \in DOMAIN caches : url \in caches[name]

\* caches.open(name) followed by cache.put / cache.addAll
cachePut(caches, name, urls) ==
    [n \in DOMAIN caches \cup {name} |->
        IF n = name
        THEN (IF n \in DOMAIN caches THEN caches[n] ELSE {}) \cup urls
        ELSE caches[n]]

NoResponse == [from |-> "none", status |-> 0]

offlineResponse_rejects == [from |-> "rejected", status |-> 0]

\* new Response('Offline ...', { status: 503 }) returned by the catch blocks
offlineResponse == [from |-> "offline", status |-> 503]

\* the cache names of earlier versions of the worker
CACHE_NAME == "profit-platform-v3"
OldCacheNames == {CACHE_NAME, "profit-platform-static-v2"}

isCurrentCache_staticOnly(cacheName) == cacheName = STATIC_CACHE

\* the caches the activate listener keeps
isCurrentCache(cacheName) == cacheName = STATIC_CACHE \/ cacheName = DYNAMIC_CACHE

\* caches.delete(name)
cacheDelete(caches, name) == [n \in DOMAIN caches \ {name} |-> caches[n]]

SwInit ==
    /\ swInstalled = FALSE
    /\ swCaches = << >>
    /\ swRequests = << >>
    /\ swFetches = 0
    /\ swActivation = "none"
    /\ swCacheNames = {}
    /\ swDeleting = {}

\* caches an earlier version of the worker left in CacheStorage
SwEarlierVersion(names) ==
    /\ ~swInstalled
    /\ DOMAIN swCaches = {}
    /\ names # {}
    /\ swCaches' = [n \in names |-> {urlRoot}]
    /\ UNCHANGED <<swInstalled, swRequests, swFetches, swActivation, swCacheNames, swDeleting>>

\* install listener: cache.addAll(urlsToCache) stores everything or rejects
SwInstall(added) ==
    /\ ~swInstalled
    /\ swInstalled' = TRUE
    /\ swCaches' = cachePut(swCaches, STATIC_CACHE, IF added THEN urlsToCache ELSE {})
    /\ UNCHANGED <<swRequests, swFetches, swActivation, swCacheNames, swDeleting>>

\* fetch listener: non-GET requests are left to the browser, GET requests are
\* answered by cacheFirst or networkFirst, which run up to their first await
SwFetchEvent(method, url) ==
    /\ swActivation = "done"
    /\ swFetches < MaxFetchEvents
    /\ Cardinality({i \in DOMAIN swRequests :
                       swRequests[i].pc \in {"match", "fetch", "fallback"}}) < MaxInFlight
    /\ swFetches' = swFetches + 1
    /\ LET strategy == IF method = "GET" THEN strategyOf(url) ELSE "none"
       IN  swRequests' = Append(swRequests,
              [method |-> method, url |-> url, strategy |-> strategy,
               pc |-> CASE strategy = "cacheFirst" -> "match"
                        [] strategy = "networkFirst" -> "fetch"
                        [] OTHER -> "notIntercepted",
               wasCached |-> cachesMatch(swCaches, url),
               networkFetches |-> IF strategy = "networkFirst" THEN 1 ELSE 0,
               networkFailed |-> FALSE,
               cacheReads |-> 0,
               response |-> NoResponse])
    /\ UNCHANGED <<swInstalled, swCaches, swActivation, swCacheNames, swDeleting>>

\* cacheFirst: caches.match resolved
SwCacheFirstMatch(i) ==
    /\ i \in DOMAIN swRequests
    /\ swRequests[i].pc = "match"
    /\ swRequests' =
          [swRequests EXCEPT ![i] =
              IF cachesMatch(swCaches, @.url)
              THEN [@ EXCEPT !.pc = "responded", !.cacheReads = @ + 1,
                             !.response = [from |-> "cache", status |-> 200]]
              ELSE [@ EXCEPT !.pc = "fetch", !.cacheReads = @ + 1,
                             !.networkFetches = @ + 1]]
    /\ UNCHANGED <<swInstalled, swCaches, swFetches, swActivation, swCacheNames, swDeleting>>

\* fetch(request) settles: a response with ok status, another response, or a
\* network error
SwNetworkSettles(i, outcome) ==
    /\ i \in DOMAIN swRequests
    /\ swRequests[i].pc = "fetch"
    /\ LET r == swRequests[i]
           cacheName == IF r.strategy = "cacheFirst" THEN STATIC_CACHE ELSE DYNAMIC_CACHE
       IN  CASE outcome = "ok" ->
                 /\ swCaches' = cachePut(swCaches, cacheName, {r.url})
                 /\ swRequests' = [swRequests EXCEPT ![i] =
                        [@ EXCEPT !.pc = "responded",
                                  !.response = [from |-> "network", status |-> 200]]]
             [] outcome = "notOk" ->
                 /\ swRequests' = [swRequests EXCEPT ![i] =
                        [@ EXCEPT !.pc = "responded",
                                  !.response = [from |-> "network", status |-> 404]]]
                 /\ UNCHANGED swCaches
             [] OTHER ->
                 /\ swRequests' = [swRequests EXCEPT ![i] =
                        IF r.strategy = "cacheFirst"
                        THEN [@ EXCEPT !.pc = "responded", !.networkFailed = TRUE,
                                       !.response = offlineResponse]
                        ELSE [@ EXCEPT !.pc = "fallback", !.networkFailed = TRUE]]
                 /\ UNCHANGED swCaches
    /\ UNCHANGED <<swInstalled, swFetches, swActivation, swCacheNames, swDeleting>>

\* networkFirst: the caches.match of the catch block resolved
SwNetworkFirstFallback(i) ==
    /\ i \in DOMAIN swRequests
    /\ swRequests[i].pc = "fallback"
    /\ swRequests' =
          [swRequests EXCEPT ![i] =
              [@ EXCEPT !.pc = "responded", !.cacheReads = @ + 1,
                        !.response = IF cachesMatch(swCaches, swRequests[i].url)
                                     THEN [from |-> "cache", status |-> 200]
                                     ELSE offlineResponse]]
    /\ UNCHANGED <<swInstalled, swCaches, swFetches, swActivation, swCacheNames, swDeleting>>

\* activate listener: clients.claim() and caches.keys() are called
SwActivate ==
    /\ swInstalled
    /\ swActivation = "none"
    /\ swActivation' = "keys"
    /\ UNCHANGED <<swInstalled, swCaches, swRequests, swFetches, swCacheNames, swDeleting>>

\* caches.keys() resolved: caches.delete is called for every name that is
\* neither STATIC_CACHE nor DYNAMIC_CACHE
SwKeysResolved ==
    /\ swActivation = "keys"
    /\ swCacheNames' = DOMAIN swCaches
    /\ swDeleting' = {n \in DOMAIN swCaches : ~isCurrentCache(n)}
    /\ swActivation' = "deleting"
    /\ UNCHANGED <<swInstalled, swCaches, swRequests, swFetches>>

\* one caches.delete resolved
SwCacheDeleted(name) ==
    /\ swActivation = "deleting"
    /\ name \in swDeleting
    /\ swCaches' = cacheDelete(swCaches, name)
    /\ swDeleting' = swDeleting \ {name}
    /\ UNCHANGED <<swInstalled, swRequests, swFetches, swActivation, swCacheNames>>

\* Promise.all resolved: the promise given to event.waitUntil settles and the
\* worker is active
SwActivated ==
    /\ swActivation = "deleting"
    /\ swDeleting = {}
    /\ swActivation' = "done"
    /\ UNCHANGED <<swInstalled, swCaches, swRequests, swFetches, swCacheNames, swDeleting>>

SwNext ==
    \/ \E names \in SUBSET (OldCacheNames \cup {DYNAMIC_CACHE}) : SwEarlierVersion(names)
    \/ SwActivate
    \/ SwKeysResolved
    \/ \E name \in OldCacheNames \cup {STATIC_CACHE, DYNAMIC_CACHE} : SwCacheDeleted(name)
    \/ SwActivated
    \/ \E added \in BOOLEAN : SwInstall(added)
    \/ \E method \in {"GET", "POST"}, url \in Urls : SwFetchEvent(method, url)
    \/ \E i \in 1..MaxFetchEvents : SwCacheFirstMatch(i)
    \/ \E i \in 1..MaxFetchEvents, outcome \in {"ok", "notOk", "error"} :
          SwNetworkSettles(i, outcome)
    \/ \E i \in 1..MaxFetchEvents : SwNetworkFirstFallback(i)

(***************************************************************************)
(* Homepage script (script.js)                                             *)
(***************************************************************************)
openMobileNav(n) ==
    [n EXCEPT !.mobileNavActive = TRUE, !.overlayActive = TRUE, !.bodyNavOpen = TRUE,
              !.ariaExpanded = "true", !.ariaHidden = "false"]

closeMobileNav_keepsOverlay(n) ==
    [n EXCEPT !.mobileNavActive = FALSE, !.bodyNavOpen = FALSE,
              !.ariaExpanded = "false", !.ariaHidden = "true"]

closeMobileNav(n) ==
    [n EXCEPT !.mobileNavActive = FALSE, !.overlayActive = FALSE, !.bodyNavOpen = FALSE,
              !.ariaExpanded = "false", !.ariaHidden = "true"]

\* the FAQ items of the page: data-category and textContent, the text written
\* as the sequence of its parts so that includes can be evaluated on it
faqItems ==
    << [category |-> "seo",     text |-> <<"What is ", "SEO", "?">>],
       [category |-> "pricing", text |-> <<"How much does ", "seo", " cost", "?">>],
       [category |-> "general", text |-> <<"Do you offer ", "Contracts", "?">>] >>

\* data-category of the filter buttons
faqFilters == {"all", "seo", "pricing"}

\* what can be typed into the search box
SearchInputs == {"", "seo", "SEO", "cost", "contracts"}

\* String.prototype.toLowerCase on the parts used here
toLowerCase(str) ==
    CASE str = "SEO" -> "seo"
      [] str = "What is " -> "what is "
      [] str = "How much does " -> "how much does "
      [] str = "Do you offer " -> "do you offer "
      [] str = "Contracts" -> "contracts"
      [] OTHER -> str

\* text.includes(searchTerm)
textIncludes(text, searchTerm) ==
    searchTerm = "" \/ \E i \in DOMAIN text : text[i] = searchTerm

matchesSearch_caseSensitive(item, value) == textIncludes(item.text, value)

matchesSearch(item, value) ==
    textIncludes([i \in DOMAIN item.text |-> toLowerCase(item.text[i])], toLowerCase(value))

matchesFilter(item, activeFilter) == activeFilter = "all" \/ item.category = activeFilter

\* filterFAQs: the display of every item
filterFAQs(value, activeFilter) ==
    [i \in DOMAIN faqItems |->
        IF matchesSearch(faqItems[i], value) /\ matchesFilter(faqItems[i], activeFilter)
        THEN "block" ELSE "none"]

visibleCount(display) == Cardinality({i \in DOMAIN display : display[i] = "block"})

PageInit ==
    /\ nav = [mobileNavActive |-> FALSE, overlayActive |-> FALSE, bodyNavOpen |-> FALSE,
              ariaExpanded |-> "false", ariaHidden |-> "true"]
    /\ exitIntentShown = FALSE
    /\ exitPopupShow = FALSE
    /\ faqSearchValue = ""
    /\ faqActiveFilter = "all"
    /\ faqDisplay = [i \in DOMAIN faqItems |-> ""]
    /\ searchCount = Len(faqItems)
    /\ pageEvent = "DOMContentLoaded"

\* click on #menuToggle
ClickMenuToggle ==
    /\ nav' = openMobileNav(nav)
    /\ pageEvent' = "click menuToggle"
    /\ UNCHANGED <<exitIntentShown, exitPopupShow, faqSearchValue, faqActiveFilter,
                   faqDisplay, searchCount>>

\* click on #mobileNavClose or on #mobileNavOverlay
ClickCloseNav(target) ==
    /\ nav' = closeMobileNav(nav)
    /\ pageEvent' = "click " \o target
    /\ UNCHANGED <<exitIntentShown, exitPopupShow, faqSearchValue, faqActiveFilter,
                   faqDisplay, searchCount>>

\* keydown listener of the document
Keydown(key) ==
    /\ nav' = IF key = "Escape" /\ nav.mobileNavActive THEN closeMobileNav(nav) ELSE nav
    /\ pageEvent' = "keydown " \o key
    /\ UNCHANGED <<exitIntentShown, exitPopupShow, faqSearchValue, faqActiveFilter,
                   faqDisplay, searchCount>>

showsExitPopup_everyTime(clientY) == clientY <= 0

\* the condition under which the mouseleave listener shows the popup
showsExitPopup(clientY) == clientY <= 0 /\ ~exitIntentShown

\* mouseleave listener of the document
MouseLeave(clientY) ==
    /\ IF showsExitPopup(clientY)
       THEN exitIntentShown' = TRUE /\ exitPopupShow' = TRUE
       ELSE UNCHANGED <<exitIntentShown, exitPopupShow>>
    /\ pageEvent' = "mouseleave"
    /\ UNCHANGED <<nav, faqSearchValue, faqActiveFilter, faqDisplay, searchCount>>

\* click on #exitClose or #exitDecline
ClickExitButton(target) ==
    /\ exitPopupShow' = FALSE
    /\ pageEvent' = "click " \o target
    /\ UNCHANGED <<nav, exitIntentShown, faqSearchValue, faqActiveFilter, faqDisplay,
                   searchCount>>

\* input event of #faqSearch
FaqSearchInput(value) ==
    /\ faqSearchValue' = value
    /\ faqDisplay' = filterFAQs(value, faqActiveFilter)
    /\ searchCount' = visibleCount(filterFAQs(value, faqActiveFilter))
    /\ pageEvent' = "input faqSearch"
    /\ UNCHANGED <<nav, exitIntentShown, exitPopupShow, faqActiveFilter>>

\* click on a .faq-filter button
ClickFaqFilter(category) ==
    /\ faqActiveFilter' = category
    /\ faqDisplay' = filterFAQs(faqSearchValue, category)
    /\ searchCount' = visibleCount(filterFAQs(faqSearchValue, category))
    /\ pageEvent' = "click faq-filter"
    /\ UNCHANGED <<nav, exitIntentShown, exitPopupShow, faqSearchValue>>

PageNext ==
    \/ ClickMenuToggle
    \/ \E target \in {"mobileNavClose", "mobileNavOverlay"} : ClickCloseNav(target)
    \/ \E key \in {"Escape", "Enter"} : Keydown(key)
    \/ \E clientY \in {0, 10} : MouseLeave(clientY)
    \/ \E target \in {"exitClose", "exitDecline"} : ClickExitButton(target)
    \/ \E value \in SearchInputs : FaqSearchInput(value)
    \/ \E category \in faqFilters : ClickFaqFilter(category)

(***************************************************************************)
(* HeaderController (header template script)                               *)
(***************************************************************************)
scrollThreshold == 100

\* document.documentElement.scrollHeight - window.innerHeight
docHeight == 200

\* the scroll offsets the page is observed at
ScrollOffsets == {0, 50, 100, 150, 200}

\* the viewport widths the window is resized to
InnerWidths == {375, 768, 1024}

Min(a, b) == IF a < b THEN a ELSE b

\* the menu part of the state as one record
menuState == [isMenuOpen |-> isMenuOpen, menu |-> menu, focus |-> focus,
              focusTimers |-> focusTimers]

\* openMobileMenu, the setTimeout callback left pending
openMobileMenu(m) ==
    [m EXCEPT !.isMenuOpen = TRUE,
              !.menu = [mobileNavActive |-> TRUE, overlayActive |-> TRUE,
                        bodyOverflow |-> "hidden", ariaExpanded |-> "true",
                        navAriaHidden |-> "false", overlayAriaHidden |-> "false"],
              !.focusTimers = @ + 1]

closeMobileMenu_keepsScrollLock(m) ==
    [m EXCEPT !.isMenuOpen = FALSE,
              !.menu = [mobileNavActive |-> FALSE, overlayActive |-> FALSE,
                        bodyOverflow |-> "hidden", ariaExpanded |-> "false",
                        navAriaHidden |-> "true", overlayAriaHidden |-> "true"],
              !.focus = "menuToggle"]

closeMobileMenu(m) ==
    [m EXCEPT !.isMenuOpen = FALSE,
              !.menu = [mobileNavActive |-> FALSE, overlayActive |-> FALSE,
                        bodyOverflow |-> "", ariaExpanded |-> "false",
                        navAriaHidden |-> "true", overlayAriaHidden |-> "true"],
              !.focus = "menuToggle"]

toggleMobileMenu(m) == IF m.isMenuOpen THEN closeMobileMenu(m) ELSE openMobileMenu(m)

SetMenu(m, event) ==
    /\ isMenuOpen' = m.isMenuOpen
    /\ menu' = m.menu
    /\ focus' = m.focus
    /\ focusTimers' = m.focusTimers
    /\ hdrEvent' = event

\* Math.min(scrollPercent, 100), in whole percent
scrollPercent(scrollTop) == Min((scrollTop * 100) \div docHeight, 100)

HeaderInit ==
    /\ isMenuOpen = FALSE
    /\ menu = [mobileNavActive |-> FALSE, overlayActive |-> FALSE, bodyOverflow |-> "",
               ariaExpanded |-> "false", navAriaHidden |-> "true",
               overlayAriaHidden |-> "true"]
    /\ focus = "body"
    /\ focusTimers = 0
    /\ innerWidth = 375
    /\ pageYOffset = 0
    /\ scrolling = TRUE
    /\ progressWidth = scrollPercent(0)
    /\ headerScrolled = FALSE
    /\ inThrottle = FALSE
    /\ hdrEvent = "init"

\* click on the menu toggle, Enter or Space on it, or a call of
\* toggleMobileMenu
ToggleMobileMenu ==
    /\ (~isMenuOpen) => focusTimers < MaxFocusTimers
    /\ SetMenu(toggleMobileMenu(menuState), "toggleMobileMenu")
    /\ UNCHANGED <<innerWidth, pageYOffset, scrolling, progressWidth, headerScrolled, inThrottle>>

\* a call of openMobileMenu
OpenMobileMenu ==
    /\ focusTimers < MaxFocusTimers
    /\ SetMenu(openMobileMenu(menuState), "openMobileMenu")
    /\ UNCHANGED <<innerWidth, pageYOffset, scrolling, progressWidth, headerScrolled, inThrottle>>

\* click on the close button, the overlay or a link of the mobile menu, or a
\* call of closeMobileMenu
CloseMobileMenu ==
    /\ SetMenu(closeMobileMenu(menuState), "closeMobileMenu")
    /\ UNCHANGED <<innerWidth, pageYOffset, scrolling, progressWidth, headerScrolled, inThrottle>>

\* keydown listener of the document
HeaderKeydown(key) ==
    /\ SetMenu(IF key = "Escape" /\ isMenuOpen THEN closeMobileMenu(menuState) ELSE menuState,
               "keydown " \o key)
    /\ UNCHANGED <<innerWidth, pageYOffset, scrolling, progressWidth, headerScrolled, inThrottle>>

\* resize listener of the window
Resize(width) ==
    /\ innerWidth' = width
    /\ SetMenu(IF width > 768 /\ isMenuOpen THEN closeMobileMenu(menuState) ELSE menuState,
               "resize")
    /\ UNCHANGED <<pageYOffset, scrolling, progressWidth, headerScrolled, inThrottle>>

\* the setTimeout callback of openMobileMenu: firstLink?.focus()
FocusTimer ==
    /\ focusTimers > 0
    /\ focusTimers' = focusTimers - 1
    /\ focus' = "firstLink"
    /\ hdrEvent' = "focus timer"
    /\ UNCHANGED <<isMenuOpen, menu, innerWidth, pageYOffset, scrolling, progressWidth,
                   headerScrolled, inThrottle>>

\* the page scrolls to an offset and the throttled scroll listener is called
Scroll(offset) ==
    /\ scrolling
    /\ offset # pageYOffset
    /\ pageYOffset' = offset
    /\ IF ~inThrottle
       THEN /\ progressWidth' = scrollPercent(offset)
            /\ headerScrolled' = (offset > scrollThreshold)
            /\ inThrottle' = TRUE
       ELSE UNCHANGED <<progressWidth, headerScrolled, inThrottle>>
    /\ hdrEvent' = "scroll"
    /\ UNCHANGED <<isMenuOpen, menu, focus, focusTimers, innerWidth, scrolling>>

\* the setTimeout callback of throttle
ThrottleTimer ==
    /\ inThrottle
    /\ inThrottle' = FALSE
    /\ hdrEvent' = "throttle timer"
    /\ UNCHANGED <<isMenuOpen, menu, focus, focusTimers, innerWidth, pageYOffset, scrolling,
                   progressWidth, headerScrolled>>

\* the user stops scrolling: no scroll event follows
StopScrolling ==
    /\ scrolling
    /\ scrolling' = FALSE
    /\ hdrEvent' = "scroll end"
    /\ UNCHANGED <<isMenuOpen, menu, focus, focusTimers, innerWidth, pageYOffset,
                   progressWidth, headerScrolled, inThrottle>>

HeaderNext ==
    \/ ToggleMobileMenu
    \/ OpenMobileMenu
    \/ CloseMobileMenu
    \/ \E key \in {"Escape", "Tab"} : HeaderKeydown(key)
    \/ \E width \in InnerWidths : Resize(width)
    \/ FocusTimer
    \/ \E offset \in ScrollOffsets : Scroll(offset)
    \/ ThrottleTimer
    \/ StopScrolling

(***************************************************************************)
(* run-enhanced-tests: main()                                              *)
(***************************************************************************)
\* the arguments considered; booleans of the config are written as the
\* strings "true" and "false", a missing key as "undefined"
RetArguments == {"--headless", "--no-headless", "--quick", "--config=custom.json"}

\* the contents a configuration file can have
unreadableFile ==
    [readable |-> FALSE, headless |-> "undefined", generateScreenshots |-> "undefined"]

RetFiles ==
    {unreadableFile} \cup
    [readable : {TRUE}, headless : {"true", "false", "undefined"},
     generateScreenshots : {"true", "undefined"}]

defaultOptions == [config |-> "test-config.json", quick |-> FALSE, headless |-> "true"]

\* the body of args.forEach
parseArg(options, arg) ==
    CASE arg = "--config=custom.json" -> [options EXCEPT !.config = "custom.json"]
      [] arg = "--quick" -> [options EXCEPT !.quick = TRUE]
      [] arg = "--headless" -> [options EXCEPT !.headless = "true"]
      [] arg = "--no-headless" -> [options EXCEPT !.headless = "false"]
      [] OTHER -> options

RECURSIVE parseArgs(_, _)
parseArgs(options, args) ==
    IF args = << >> THEN options
    ELSE parseArgs(parseArg(options, Head(args)), Tail(args))

\* config = JSON.parse(configFile), or {} when the file cannot be read
loadConfig(file) ==
    IF file.readable
    THEN [headless |-> file.headless, generateScreenshots |-> file.generateScreenshots]
    ELSE [headless |-> "undefined", generateScreenshots |-> "undefined"]

\* "Override config with CLI options"
overrideConfig(config, options) ==
    LET c1 == IF options.headless # "undefined"
              THEN [config EXCEPT !.headless = options.headless] ELSE config
    IN  IF options.quick THEN [c1 EXCEPT !.generateScreenshots = "false"] ELSE c1

\* config.key ?? true
orTrue(value) == IF value = "undefined" THEN "true" ELSE value

\* this.config of new EnhancedUITestingAgent(config)
agentConfig(config) ==
    [headless |-> orTrue(config.headless),
     generateScreenshots |-> orTrue(config.generateScreenshots)]

RetInit ==
    /\ retPc = "shell"
    /\ retArgs = << >>
    /\ retFile = unreadableFile
    /\ retOptions = defaultOptions
    /\ retConfig = loadConfig(unreadableFile)
    /\ retAgentConfig = agentConfig(loadConfig(unreadableFile))

\* node run-enhanced-tests.js args..., up to the end of option parsing
RetParseArgs(args, file) ==
    /\ retPc = "shell"
    /\ retArgs' = args
    /\ retFile' = file
    /\ retOptions' = parseArgs(defaultOptions, args)
    /\ retPc' = "parsed"
    /\ UNCHANGED <<retConfig, retAgentConfig>>

\* the configuration file is read and the options are applied to it
RetLoadConfig ==
    /\ retPc = "parsed"
    /\ retConfig' = overrideConfig(loadConfig(retFile), retOptions)
    /\ retPc' = "configured"
    /\ UNCHANGED <<retArgs, retFile, retOptions, retAgentConfig>>

\* new EnhancedUITestingAgent(config)
RetNewAgent ==
    /\ retPc = "configured"
    /\ retAgentConfig' = agentConfig(retConfig)
    /\ retPc' = "agent"
    /\ UNCHANGED <<retArgs, retFile, retOptions, retConfig>>

RetNext ==
    \/ \E n \in 0..MaxArgs : \E args \in [1..n -> RetArguments], file \in RetFiles :
          RetParseArgs(args, file)
    \/ RetLoadConfig
    \/ RetNewAgent

(***************************************************************************)
(* checkDependencies over arbitrary agent registries                       *)
(***************************************************************************)
\* the registered agents of the registries considered, and a name that is not
\* registered
DepRegistered == {"developer", "tester", "orchestrator"}
DepNames == DepRegistered \cup {"linter"}

\* the dependencies arrays considered: distinct names, at most MaxDeps
DepLists ==
    UNION {{l \in [1..n -> DepNames] : \A i, j \in 1..n : i # j => l[i] # l[j]} :
           n \in 0..MaxDeps}

\* the agentNames arguments considered
DepNameLists ==
    {<<"developer">>, <<"tester">>, <<"orchestrator">>, <<"linter">>,
     <<"developer", "tester", "orchestrator">>, <<"orchestrator", "tester", "developer">>}

DepsInit ==
    /\ depGraph = [a \in DepRegistered |-> << >>]
    /\ depNames = << >>
    /\ depResult = "pending"

\* dependencyCheck = this.checkDependencies(workflow.agents)
CheckDependencies ==
    /\ depResult = "pending"
    /\ depResult' = IF checkDependencies(depGraph, depNames) THEN "valid" ELSE "cycle"
    /\ UNCHANGED <<depGraph, depNames>>

DepsNext == CheckDependencies

(***************************************************************************)
(* Actions of the ManagerAgent                                             *)
(***************************************************************************)
\* executeWorkflow(workflowName): init, loadState (no saved state), the lookup
ExecuteWorkflow(w) ==
    /\ pc = "constructed"
    /\ IF w \in WorkflowNames
       THEN SetState([cur EXCEPT !.pc = "pre", !.wf = w, !.wfMode = workflows[w].mode,
                                 !.wfAgents = workflows[w].agents])
       ELSE SetState([cur EXCEPT !.pc = "thrown", !.err = "UnknownWorkflow"])

\* the workflows a caller registers in this.workflows besides the predefined
\* ones
CustomWorkflows ==
    {[agents |-> <<"orchestrator", "ui", "tester", "developer">>, mode |-> "custom"],
     [agents |-> <<"tester", "orchestrator", "ui", "developer">>, mode |-> "adaptive"],
     [agents |-> <<"tester", "developer">>, mode |-> "adaptive"],
     [agents |-> <<"ui">>, mode |-> "adaptive"],
     [agents |-> <<"orchestrator", "developer">>, mode |-> "adaptive"]}

\* executeWorkflow('custom') with this.workflows.custom = {agents, mode}
ExecuteCustomWorkflow(agents, mode) ==
    /\ pc = "constructed"
    /\ SetState([cur EXCEPT !.pc = "pre", !.wf = "custom", !.wfMode = mode,
                            !.wfAgents = agents])

PreExecutionChecks(sufficient) ==
    /\ pc = "pre"
    /\ SetState(preExecutionChecks(cur, sufficient))

ExecuteWorkflowMode ==
    /\ pc = "exec"
    /\ SetState(executeWorkflowMode(cur))

\* the agent's own method resolves
AgentCompletes(a) ==
    /\ inProgress[a] # "none"
    /\ LET s1 == onAgentCompleted([cur EXCEPT !.inProgress[a] = "none"], a)
       IN  SetState(IF inProgress[a] = "workflow" THEN resumeWorkflow(s1, a, "ok") ELSE s1)

\* the agent's own method rejects
AgentFails(a) ==
    /\ inProgress[a] # "none"
    /\ (cfg.autoRemediation /\ runCount[a] < cfg.retryFailedAgents)
          => invocations[a] < MaxInvocations
    /\ LET s1 == onAgentFailed([cur EXCEPT !.inProgress[a] = "none"], a)
       IN  SetState(IF inProgress[a] = "workflow" THEN resumeWorkflow(s1, a, "fail") ELSE s1)

PostExecutionAnalysis ==
    /\ pc = "post"
    /\ SetState(postExecutionAnalysis(cur))

GenerateManagerReports ==
    /\ pc = "reports"
    /\ SetState(generateManagerReports(cur))

MgrNext ==
    \/ \E w \in WorkflowNames \cup {"no-such-workflow"} : ExecuteWorkflow(w)
    \/ \E sufficient \in BOOLEAN : PreExecutionChecks(sufficient)
    \/ ExecuteWorkflowMode
    \/ \E a \in AgentNames : AgentCompletes(a)
    \/ \E a \in AgentNames : AgentFails(a)
    \/ PostExecutionAnalysis
    \/ GenerateManagerReports

\* the agents a caller disables
DisabledChoices == {"developer", "orchestrator"}

\* a caller sets agents[a].status = 'disabled' before running a workflow
DisableAgent(a) ==
    /\ pc = "constructed"
    /\ \A b \in AgentNames : status[b] = "idle"
    /\ SetState([cur EXCEPT !.status[a] = "disabled"])

\* the manager with an agent the caller disabled
DisabledNext ==
    \/ \E a \in DisabledChoices : DisableAgent(a)
    \/ MgrNext

\* the manager with caller-registered workflows
AdaptiveNext ==
    \/ \E w \in CustomWorkflows : ExecuteCustomWorkflow(w.agents, w.mode)
    \/ \E sufficient \in BOOLEAN : PreExecutionChecks(sufficient)
    \/ ExecuteWorkflowMode
    \/ \E a \in AgentNames : AgentCompletes(a)
    \/ \E a \in AgentNames :
          /\ (cfg.autoRemediation /\ runCount[a] < cfg.retryFailedAgents)
                => invocations[a] < MaxAdaptiveInvocations
          /\ AgentFails(a)
    \/ PostExecutionAnalysis
    \/ GenerateManagerReports

OtherInit ==
    /\ RunsInit /\ OrchInit /\ UiInit /\ CliInit /\ SwInit /\ PageInit /\ HeaderInit
    /\ RetInit

Init == MgrInit /\ OtherInit /\ DepsInit

Next == MgrNext /\ UNCHANGED <<runVars, orchVars, uiVars, cliVars, swVars, pageVars, hdrVars, retVars, depVars>>

Spec == Init /\ [][Next]_vars

(***************************************************************************)
(* Properties of the ManagerAgent                                          *)
(***************************************************************************)
\* the agents of the workflow, and the executions pending right now
WorkflowAgents == Range(wfAgents)
Executing == {a \in AgentNames : inProgress[a] # "none"}

\* executeWorkflowMode has returned its results object
ModeReturned == pc \in {"post", "reports", "done"} \/ (pc = "thrown" /\ err = "TypeError")

FailureRecorded == \A a \in WorkflowAgents : wfOutcome[a] = "fail" => results[a] = "error"
AllExecuted == \A a \in WorkflowAgents : invocations[a] >= 1 /\ wfOutcome[a] # "none"

\* C1 as stated: in every mode, once the mode has run, a failed agent's result
\* carries an error and every agent of the workflow has been executed.
C1_FailureNeverAbortsSiblings ==
    ModeReturned => (FailureRecorded /\ AllExecuted)

\* C1 amended: a failed agent's result always carries an error; every agent of
\* the workflow is executed in parallel and adaptive mode, and in sequential mode
\* unless developer failed, in which case no agent listed after it is started.
C1_FailureRecordedSiblingsRun ==
    ModeReturned =>
        /\ FailureRecorded
        /\ (wfMode # "sequential" \/ wfOutcome["developer"] # "fail") => AllExecuted
        /\ (wfMode = "sequential" /\ wfOutcome["developer"] = "fail") =>
              \A i \in DOMAIN wfAgents :
                  (i > 1 /\ wfAgents[1] = "developer") => invocations[wfAgents[i]] = 0

\* C1 witness: a parallel workflow returned with one agent failed and recorded
\* and its sibling executed to completion.
C1_Witness ==
    /\ pc = "post" /\ wfMode = "parallel"
    /\ wfOutcome["developer"] = "fail" /\ results["developer"] = "error"
    /\ \E a \in WorkflowAgents : a # "developer" /\ results[a] = "ok"

\* C2 as stated: an agent is invoked at most once by the workflow plus
\* config.retryFailedAgents times by auto-remediation.
C2_RetriesBounded ==
    \A a \in AgentNames : invocations[a] <= 1 + cfg.retryFailedAgents

C4_AtMostThreeExecuting == Cardinality(Executing) <= 3

\* C6 as stated: for a known workflow, executeWorkflow does not throw when the
\* only failures of the run are failures of agents.
C6_AgentFailuresNeverThrow == ~(pc = "thrown" /\ wf \in WorkflowNames)

\* successive manager processes writing into one output directory
\* C20: in adaptive mode an agent whose execution the workflow has started has
\* all its dependencies finished in this run: the workflow's execution of each
\* dependency has settled, successfully or with the failure recorded in the
\* results. In the comprehensive workflow this is the orchestrator after
\* developer, tester and ui.
C20_AdaptiveStartsAfterDependencies ==
    wfMode = "adaptive" =>
        \A a \in AgentNames :
            (inProgress[a] = "workflow" \/ wfOutcome[a] # "none") =>
                \A i \in DOMAIN dependencies[a] :
                    LET dep == dependencies[a][i]
                    IN  /\ wfOutcome[dep] \in {"ok", "fail"}
                        /\ inProgress[dep] # "workflow"
                        /\ results[dep] = IF wfOutcome[dep] = "ok" THEN "ok" ELSE "error"

C20_Witness ==
    /\ wf = "comprehensive" /\ wfMode = "adaptive"
    /\ inProgress["orchestrator"] = "workflow"
    /\ wfOutcome["developer"] = "fail" /\ results["developer"] = "error"
    /\ wfOutcome["tester"] = "ok" /\ wfOutcome["ui"] = "ok"

InitRuns == Init /\ cfg.retryFailedAgents = retryFailedAgentsDefault /\ cfg.autoRemediation

SpecRuns == InitRuns /\ [][RunsNext /\ UNCHANGED <<mgrVars, orchVars, uiVars, cliVars, swVars, pageVars, hdrVars, retVars, depVars>>]_vars

(***************************************************************************)
(* Properties of the report artifacts                                      *)
(***************************************************************************)
\* two writes of one path by different runs
Rewritten(a, b) == a.path = b.path /\ a.run < b.run

SpecOrch == InitRuns /\ [][OrchNext /\ UNCHANGED <<mgrVars, runVars, uiVars, cliVars, swVars, pageVars, hdrVars, retVars, depVars>>]_vars

(***************************************************************************)
(* Properties of the AgentOrchestrator                                     *)
(***************************************************************************)
\* C7 as stated: when the orchestrator is done, results.agents holds, in
\* parallel mode as in sequential mode, exactly the enabled agents, each with
\* its own result.
C7_ParallelRecordsAsSequential ==
    orchPc = "done" => orchAgents = recordSequential(orchConfig, orchReturned)

\* one call of EnhancedUITestingAgent.runAllTests on a new agent
SpecUI == InitRuns /\ [][UiNext /\ UNCHANGED <<mgrVars, runVars, orchVars, cliVars, swVars, pageVars, hdrVars, retVars, depVars>>]_vars

\* one run of a script from the shell
SpecCLI == InitRuns /\ [][CliNext /\ UNCHANGED <<mgrVars, runVars, orchVars, uiVars, swVars, pageVars, hdrVars, retVars, depVars>>]_vars

(***************************************************************************)
(* Properties of EnhancedUITestingAgent and of the entry points            *)
(***************************************************************************)
\* C8: when runAllTests returns there is exactly one result per configured page
\* in the configured order, a page whose checks threw has error set, every
\* browser page is closed; all pages were tested whatever threw before them.
C8_OneResultPerPage ==
    uiPc = "done" =>
        /\ Len(uiResults) = Len(pages)
        /\ \A i \in DOMAIN uiResults :
              /\ uiResults[i].page = pages[i]
              /\ (i \in uiThrew) = uiResults[i].error
        /\ uiOpenPages = {}

\* C8 witness: runAllTests returned after the checks of the first page threw and
\* the last page was tested without error.
C8_Witness ==
    /\ uiPc = "done"
    /\ 1 \in uiThrew /\ uiResults[1].error
    /\ ~uiResults[Len(pages)].error

\* C9 as stated: a failure of the top-level function of any entry point is
\* logged and the process ends with a non-zero exit status.
C9_FailureExitsNonZero ==
    (cliPc = "exited" /\ cliFailed) => (cliLogged /\ cliExit # "0")

\* the service worker handling install and fetch events
SpecSW ==
    InitRuns /\ [][SwNext /\ UNCHANGED <<mgrVars, runVars, orchVars, uiVars, cliVars, pageVars, hdrVars, retVars, depVars>>]_vars

(***************************************************************************)
(* Properties of the service worker                                        *)
(***************************************************************************)
\* C10 as stated: an answered GET request for a static asset or a font / CDN
\* resource that was in the cache got the cached response without a network
\* fetch; an answered GET request for a page tried the network first and read
\* the cache only after the network fetch failed.
C10_CacheFirstAssetsNetworkFirstPages ==
    \A i \in DOMAIN swRequests :
        LET r == swRequests[i]
        IN  (r.method = "GET" /\ r.pc = "responded") =>
                IF requestKind(r.url) \in {"static", "font-cdn"}
                THEN r.wasCached => (r.networkFetches = 0 /\ r.response.from = "cache")
                ELSE r.networkFetches >= 1 /\ (r.cacheReads > 0 => r.networkFailed)

\* C11: once the activate event has completed, every cache that remains is
\* the current static or the current dynamic cache, whatever caches existed
\* before; the current caches that existed before are still there.
C11_ActivateLeavesCurrentCaches ==
    swActivation = "done" =>
        /\ DOMAIN swCaches \subseteq {STATIC_CACHE, DYNAMIC_CACHE}
        /\ \A n \in swCacheNames \cap {STATIC_CACHE, DYNAMIC_CACHE} : n \in DOMAIN swCaches

C11_Witness ==
    /\ swActivation = "done"
    /\ OldCacheNames \subseteq swCacheNames
    /\ DYNAMIC_CACHE \in swCacheNames
    /\ DOMAIN swCaches = {STATIC_CACHE, DYNAMIC_CACHE}

\* the URLs stored by cache.addAll at install or left by an earlier version
Precached(name) ==
    IF name = STATIC_CACHE THEN urlsToCache \cup {urlRoot} ELSE {urlRoot}

\* C12: a GET request the worker has finished handling has a response, taken
\* from the cache or the network or the 503 response of the catch block, and
\* never a rejection; when the network fetch failed and no cached copy exists
\* the response is the 503 response; a URL is stored in a cache only with a
\* network response of ok status; requests of other methods are not
\* intercepted.
C12_AlwaysAnsweredOkOnlyCached ==
    /\ \A i \in DOMAIN swRequests :
          LET r == swRequests[i]
          IN  /\ r.method # "GET" =>
                    /\ r.pc = "notIntercepted"
                    /\ r.networkFetches = 0 /\ r.cacheReads = 0
                    /\ r.response = NoResponse
              /\ (r.method = "GET" /\ r.pc = "responded") =>
                    /\ r.response.from \in {"cache", "network", "offline"}
                    /\ r.response.from = "offline" => (r.response.status = 503 /\ r.networkFailed)
                    /\ (r.networkFailed /\ ~cachesMatch(swCaches, r.url)) =>
                          r.response = [from |-> "offline", status |-> 503]
              /\ r.method = "GET" => r.pc # "notIntercepted"
    /\ \A name \in DOMAIN swCaches : \A url \in swCaches[name] :
          \/ url \in Precached(name)
          \/ \E i \in DOMAIN swRequests :
                /\ swRequests[i].url = url
                /\ swRequests[i].response = [from |-> "network", status |-> 200]
                /\ name = IF swRequests[i].strategy = "cacheFirst"
                          THEN STATIC_CACHE ELSE DYNAMIC_CACHE

C12_Witness ==
    \E i, j \in DOMAIN swRequests :
        /\ swRequests[i].method = "GET" /\ swRequests[i].pc = "responded"
        /\ swRequests[i].networkFailed /\ swRequests[i].response.status = 503
        /\ swRequests[j].method = "GET" /\ swRequests[j].response.status = 404
        /\ ~cachesMatch(swCaches, swRequests[j].url)

\* the event handlers of the homepage script
SpecPage == InitRuns /\ [][PageNext /\ UNCHANGED <<mgrVars, runVars, orchVars, uiVars, cliVars, swVars, hdrVars, retVars, depVars>>]_vars

(***************************************************************************)
(* Properties of the homepage script                                       *)
(***************************************************************************)
NavAgrees ==
    /\ nav.mobileNavActive = nav.overlayActive
    /\ nav.mobileNavActive = (nav.ariaExpanded = "true")
    /\ nav.mobileNavActive = (nav.ariaHidden = "false")

\* C13: after a click on the menu toggle the mobile nav and its overlay have
\* class active; after a click on the close button or the overlay, or after
\* Escape, they do not; and at all times nav active, overlay active,
\* aria-expanded = 'true' and aria-hidden = 'false' agree.
C13_MobileNavConsistent ==
    /\ NavAgrees
    /\ pageEvent = "click menuToggle" => (nav.mobileNavActive /\ nav.overlayActive)
    /\ pageEvent \in {"click mobileNavClose", "click mobileNavOverlay", "keydown Escape"} =>
          (~nav.mobileNavActive /\ ~nav.overlayActive)

C13_Witness ==
    /\ pageEvent = "click menuToggle"
    /\ nav.mobileNavActive /\ nav.overlayActive
    /\ nav.ariaExpanded = "true" /\ nav.ariaHidden = "false"

\* C17: the popup has class show only after the exit intent was recorded, and
\* once the exit intent was recorded and the popup is hidden no step, a later
\* mouse-leave included, shows it again; a click on the close or decline
\* button leaves it hidden.
C17_ExitPopupShownOnce ==
    [][/\ exitPopupShow' => (exitPopupShow \/ ~exitIntentShown)
       /\ exitIntentShown => exitIntentShown'
       /\ pageEvent' \in {"click exitClose", "click exitDecline"} => ~exitPopupShow']_vars

C17_Witness ==
    /\ pageEvent = "mouseleave"
    /\ exitIntentShown
    /\ ~exitPopupShow

\* C18: an FAQ item is displayed exactly when its text contains the search
\* term (both in lower case, as the search compares them) and its category is
\* the active filter or the active filter is 'all', and the search count is
\* the number of displayed items; before the first search or filter event the
\* items have the display of the style sheet.
C18_FaqFilterConsistent ==
    \/ /\ \A i \in DOMAIN faqItems : faqDisplay[i] = ""
       /\ faqSearchValue = "" /\ faqActiveFilter = "all"
    \/ /\ \A i \in DOMAIN faqItems :
             (faqDisplay[i] = "block") <=>
                 /\ \E j \in DOMAIN faqItems[i].text :
                       \/ faqSearchValue = ""
                       \/ toLowerCase(faqItems[i].text[j]) = toLowerCase(faqSearchValue)
                 /\ faqActiveFilter \in {"all", faqItems[i].category}
       /\ \A i \in DOMAIN faqItems : faqDisplay[i] \in {"block", "none"}
       /\ searchCount = Cardinality({i \in DOMAIN faqItems : faqDisplay[i] = "block"})

C18_Witness ==
    /\ faqSearchValue = "SEO"
    /\ faqActiveFilter = "pricing"
    /\ faqDisplay = <<"none", "block", "none">>
    /\ searchCount = 1

\* the event handlers and timers of the HeaderController
HeaderStep == HeaderNext /\ UNCHANGED <<mgrVars, runVars, orchVars, uiVars, cliVars, swVars, pageVars, retVars, depVars>>

SpecHeader == InitRuns /\ [][HeaderStep]_vars

\* the same, with every pending timer firing eventually
SpecHeaderLive ==
    /\ SpecHeader
    /\ WF_vars(FocusTimer /\ HeaderStep)
    /\ WF_vars(ThrottleTimer /\ HeaderStep)

(***************************************************************************)
(* Properties of the HeaderController                                      *)
(***************************************************************************)
\* C14: isMenuOpen is true exactly when the mobile nav and the overlay have
\* class active, aria-expanded is 'true' and body scrolling is locked; after
\* Escape and after a resize to more than 768px the menu is closed.
C14_MenuStateConsistent ==
    /\ isMenuOpen = menu.mobileNavActive
    /\ isMenuOpen = menu.overlayActive
    /\ isMenuOpen = (menu.ariaExpanded = "true")
    /\ isMenuOpen = (menu.bodyOverflow = "hidden")
    /\ hdrEvent = "keydown Escape" => ~isMenuOpen
    /\ (hdrEvent = "resize" /\ innerWidth > 768) => ~isMenuOpen

C14_Witness ==
    /\ hdrEvent = "resize" /\ innerWidth > 768
    /\ focus = "menuToggle"
    /\ ~isMenuOpen /\ menu.bodyOverflow = ""

\* C15 as stated: keyboard focus is on the first link of the mobile menu only
\* while the menu is open.
C15_FocusInMenuOnlyWhileOpen == focus = "firstLink" => isMenuOpen

\* C16 as stated: once scrolling has stopped, the progress bar width and the
\* scrolled class of the header eventually correspond to the scroll offset.
C16_ScrollStateSettles ==
    (~scrolling) ~> (/\ progressWidth = scrollPercent(pageYOffset)
                     /\ headerScrolled = (pageYOffset > scrollThreshold))

\* main() of run-enhanced-tests up to the construction of the agent
SpecRet == InitRuns /\ [][RetNext /\ UNCHANGED <<mgrVars, runVars, orchVars, uiVars, cliVars, swVars, pageVars, hdrVars, depVars>>]_vars

(***************************************************************************)
(* Properties of run-enhanced-tests                                        *)
(***************************************************************************)
HeadlessFlagGiven ==
    \E i \in DOMAIN retArgs : retArgs[i] \in {"--headless", "--no-headless"}

\* C19 as stated: when neither --headless nor --no-headless is given, the
\* agent gets the headless value of the configuration file, if the file has
\* one.
C19_FileHeadlessKeptWithoutFlag ==
    (/\ retPc = "agent"
     /\ ~HeadlessFlagGiven
     /\ retFile.readable
     /\ retFile.headless # "undefined")
        => retAgentConfig.headless = retFile.headless

\* checkDependencies applied to every registry and argument considered
InitDeps ==
    /\ MgrInit /\ cfg.retryFailedAgents = retryFailedAgentsDefault /\ cfg.autoRemediation
    /\ OtherInit
    /\ depGraph \in [DepRegistered -> DepLists]
    /\ depNames \in DepNameLists
    /\ depResult = "pending"

SpecDeps == InitDeps /\ [][DepsNext /\ UNCHANGED <<mgrVars, runVars, orchVars, uiVars, cliVars, swVars, pageVars, hdrVars, retVars>>]_vars

(***************************************************************************)
(* Properties of checkDependencies                                         *)
(***************************************************************************)
\* the names a dependency edge leads to
DepSuccessors(graph, n) ==
    IF n \in DOMAIN graph THEN {graph[n][i] : i \in DOMAIN graph[n]} ELSE {}

RECURSIVE DepReachable(_, _, _)
\* the names reachable from the set `from' over at least one edge, `seen'
\* being the names found so far
DepReachable(graph, from, seen) ==
    LET next == UNION {DepSuccessors(graph, n) : n \in from} \ seen
    IN  IF next = {} THEN seen ELSE DepReachable(graph, next, seen \cup next)

OnCycle(graph, n) == n \in DepReachable(graph, {n}, {})

CycleReachable(graph, names) ==
    LET start == {names[i] : i \in DOMAIN names}
    IN  \E n \in start \cup DepReachable(graph, start, {}) : OnCycle(graph, n)

\* C21: checkDependencies returns valid exactly when no dependency cycle is
\* reachable from the given agent names, and reports a circular dependency
\* only when there is one, for every registry considered.
C21_ValidIffNoReachableCycle ==
    depResult # "pending" =>
        (depResult = "valid") = ~CycleReachable(depGraph, depNames)

\* a diamond: developer depends on tester and orchestrator, both depend on an
\* unregistered name
C21_Witness ==
    /\ depResult = "valid"
    /\ depGraph["developer"] = <<"tester", "orchestrator">>
    /\ depGraph["tester"] = <<"linter">>
    /\ depGraph["orchestrator"] = <<"linter">>
    /\ depNames = <<"developer", "tester", "orchestrator">>

\* the manager running predefined and caller-registered workflows; every
\* continuation that can run does run, and every agent execution settles
AdaptiveStep ==
    AdaptiveNext /\ UNCHANGED <<runVars, orchVars, uiVars, cliVars, swVars, pageVars, hdrVars, retVars, depVars>>

SpecAdaptive == InitRuns /\ [][AdaptiveStep]_vars /\ WF_vars(AdaptiveStep)

\* every dependency of a workflow agent is itself an agent of the workflow
\* (the dependency graph of the registry is acyclic)
DependenciesClosed ==
    \A a \in WorkflowAgents : Range(dependencies[a]) \subseteq WorkflowAgents

AdaptiveWorkflow == wfMode \in {"adaptive", "custom"} /\ DependenciesClosed

InExecuteAdaptive == pc \in {"waitAdaptiveParallel", "waitAdaptiveSequential"}

\* the workflow loop starts agent a in this step
WorkflowStarts(a) == inProgress'[a] = "workflow" /\ inProgress[a] # "workflow"

\* C22: for a workflow whose agents' dependencies are all agents of the workflow
\* (acyclic graph), executeAdaptive never throws 'Deadlock detected', starts an
\* agent from the workflow loop only if that agent was never started before,
\* terminates, and has a result entry for every workflow agent when it returns.
C22_AdaptiveTerminatesEveryAgentOnce ==
    /\ [](AdaptiveWorkflow => err # "Deadlock")
    /\ [](AdaptiveWorkflow /\ ModeReturned =>
            \A a \in WorkflowAgents : results[a] # "none" /\ wfOutcome[a] # "none")
    /\ [][AdaptiveWorkflow =>
            \A a \in AgentNames :
                WorkflowStarts(a) =>
                    a \in WorkflowAgents /\ invocations[a] = 0 /\ wfOutcome[a] = "none"]_vars
    /\ ((AdaptiveWorkflow /\ InExecuteAdaptive) ~> ModeReturned)

\* a caller-registered workflow listing the orchestrator first has returned
\* with a result for each of its four agents
C22_Witness ==
    /\ wf = "custom" /\ wfMode = "custom" /\ pc = "post"
    /\ wfAgents[1] = "orchestrator" /\ Len(wfAgents) = 4
    /\ \A a \in AgentNames : results[a] # "none" /\ invocations[a] >= 1

SpecDisabled ==
    InitRuns /\ [][DisabledNext /\ UNCHANGED <<runVars, orchVars, uiVars, cliVars, swVars, pageVars, hdrVars, retVars, depVars>>]_vars

\* C23 as stated: an agent whose status is 'disabled' is never started by a
\* workflow that lists it: no step taken while its status is 'disabled' emits
\* 'agent-started' for it or creates an instance of it.
C23_DisabledAgentNeverStarted ==
    [][\A a \in AgentNames :
          status[a] = "disabled" =>
              /\ invocations'[a] = invocations[a]
              /\ inProgress'[a] = inProgress[a]]_vars

====
